---------------------------- MODULE Spec2Model ----------------------------
(***************************************************************************)
(* A model of tf2_gnn/utils/training_utils.py: the hyperparameter          *)
(* resolution of get_dataset / get_model (as called by                     *)
(* get_model_and_dataset) and the early-stopping loop of train() as driven *)
(* by run_train_from_args.                                                 *)
(*                                                                         *)
(* Two specifications share the variables:                                 *)
(*   Spec / FairSpec  one run of run_train_from_args from the housekeeping *)
(*                    (line 225) to the end of the optional test pass;     *)
(*   ResolverSpec     calls of the two halves of get_model_and_dataset.    *)
(*                                                                         *)
(* Validation metrics are numbers that train() only ever compares with <   *)
(* (line 195), so they are modelled by the integers 1..MaxMetric.          *)
(* The model weights are opaque to this file; they are identified by      *)
(* where they started (build() or --load-saved-model) and by the number of *)
(* training passes applied since.                                          *)
(***************************************************************************)
EXTENDS Integers, Sequences, FiniteSets, TLC

\* ------------------------------------------------------------------ bounds
MaxEpochs == 5
MaxPatience == 3
MaxMetric == 3

Metrics == 1..MaxMetric

\* Python's None, for the optional string arguments.
None == "<None>"
RunNames == {None, "my_run"}
SavedModels == {None, "old_run_best.pkl"}
ModelName == "ggnn"
TaskName == "PPI"
SaveDir == "trained_model"
Timestamps == {"2020-01-01_00-00-00"}

\* ------------------------------------------------------- hyperparameters
\* A hyperparameter mapping is a function from a finite set of keys to
\* values (a Python dict with string keys).
ReservedKey == "gnn_message_calculation_class"
DataKeys == {"max_nodes_per_batch", "add_self_loop_edges"}
ModelKeys == {ReservedKey, "gnn_hidden_dim"}
Values == {"rgcn", "ggnn"}

MapsOver(K) == UNION {[D -> Values] : D \in SUBSET K}
EmptyMap == [k \in {} |-> "rgcn"]

\* dict.update(o): top-level keys of o overwrite those of d, no deep merge.
Update(d, o) ==
    [k \in (DOMAIN d) \cup (DOMAIN o) |-> IF k \in DOMAIN o THEN o[k] ELSE d[k]]

\* d[key] = value
SetItem(d, key, value) == Update(d, [k \in {key} |-> value])

VARIABLES
    args,               \* the parsed command line of run_train_from_args
    pc,                 \* position in run_train_from_args / train
    run_id,             \* run identifier, a sequence of string pieces
    log_file,           \* path of the log file
    save_file,          \* path of the checkpoint written by train()
    weights,            \* model weights: where they started, passes applied
    files,              \* checkpoint files on disk: path -> stored weights
    n_saves,            \* number of save_model calls so far
    epoch,              \* loop variable of train()
    valid_metric,       \* metric of the latest validation pass
    best_valid_metric,  \* train(): best_valid_metric
    best_valid_epoch,   \* train(): best_valid_epoch
    valid_hist,         \* every validation metric observed, baseline first
    n_train_passes,     \* run_one_epoch(train_data, training=True) calls
    n_test_passes,      \* run_one_epoch(test_data, training=False) calls
    stop_reason,        \* why the loop of train() ended
    trained_model_path, \* value returned by train()
    resolved            \* record of the latest resolver call

vars == <<args, pc, run_id, log_file, save_file, weights, files,
          n_saves, epoch, valid_metric, best_valid_metric, best_valid_epoch,
          valid_hist, n_train_passes, n_test_passes, stop_reason,
          trained_model_path, resolved>>

train_vars == <<args, pc, run_id, log_file, save_file, weights, files,
                n_saves, epoch, valid_metric, best_valid_metric,
                best_valid_epoch, valid_hist, n_train_passes, n_test_passes,
                stop_reason, trained_model_path>>

NoPath == <<>>
NoFiles == [p \in {} |-> 0]
\* Weights are named by their origin (freshly initialised by build(), or
\* read from --load-saved-model) and the number of training passes since.
FreshWeights == [origin |-> "init", passes |-> 0]
LoadedWeights == [origin |-> "loaded", passes |-> 0]
NoCall == [fn |-> "none"]

\* --------------------------------------------------------- pure functions
\* make_run_id: the run name when one is passed, else model_task__time.
make_run_id(model_name, task_name, run_name, now) ==
    IF run_name # None
    THEN <<run_name>>
    ELSE <<model_name, "_", task_name, "__", now>>

\* os.path.join(save_dir, f"{run_id}<suffix>")
PathOf(save_dir, id, suffix) == <<save_dir, "/">> \o id \o <<suffix>>

\* Variant: a tie counts as an improvement.
Improved_OrEqual(metric, best) == metric <= best

\* line 195: valid_metric < best_valid_metric
Improved(metric, best) == metric < best

\* Variant: one more stale epoch is tolerated.
PatienceExhausted_Strict(e, best_epoch, patience) == e - best_epoch > patience

\* line 202: epoch - best_valid_epoch >= patience
PatienceExhausted(e, best_epoch, patience) == e - best_epoch >= patience

\* Variant: range(1, max_epochs + 2).
HasNextEpoch_OneMore(e, max_epochs) == e + 1 <= max_epochs + 1

\* line 171: range(1, max_epochs + 1) has a next element after e
HasNextEpoch(e, max_epochs) == e + 1 <= max_epochs

\* ------------------------------------------------------------------ Init
ArgsSet ==
    [model : {ModelName}, task : {TaskName}, save_dir : {SaveDir},
     run_name : RunNames, run_test : BOOLEAN, load_saved_model : SavedModels,
     max_epochs : 1..MaxEpochs, patience : 1..MaxPatience]

TrainIdle ==
    /\ pc = "start"
    /\ run_id = <<>>
    /\ log_file = NoPath
    /\ save_file = NoPath
    /\ weights = FreshWeights
    /\ files = IF args.load_saved_model = None
               THEN NoFiles
               ELSE [p \in {<<args.load_saved_model>>} |-> LoadedWeights]
    /\ n_saves = 0
    /\ epoch = 0
    /\ valid_metric = 0
    /\ best_valid_metric = 0
    /\ best_valid_epoch = 0
    /\ valid_hist = <<>>
    /\ n_train_passes = 0
    /\ n_test_passes = 0
    /\ stop_reason = "running"
    /\ trained_model_path = NoPath

Init ==
    /\ args \in ArgsSet
    /\ TrainIdle
    /\ resolved = NoCall

\* ------------------------------------------------------- run_train_from_args
\* lines 225-246: choose the run id and the log file, seed, build the model
\* and load the initial weights when --load-saved-model is given.
Housekeeping ==
    /\ pc = "start"
    /\ \E now \in Timestamps :
          /\ run_id' = make_run_id(args.model, args.task, None, now)
          /\ log_file' = PathOf(args.save_dir, run_id', ".log")
    /\ weights' = IF args.load_saved_model # None
                  THEN files[<<args.load_saved_model>>]
                  ELSE weights
    /\ pc' = "train_init"
    /\ UNCHANGED <<args, save_file, files, n_saves, epoch,
                   valid_metric, best_valid_metric, best_valid_epoch,
                   valid_hist, n_train_passes, n_test_passes, stop_reason,
                   trained_model_path, resolved>>

\* save_model(save_file, model, dataset): pickle the header, save the weights.
SaveModel(path) ==
    /\ files' = Update(files, [p \in {path} |-> weights])
    /\ n_saves' = n_saves + 1

\* train() lines 160-170: baseline validation pass and first checkpoint.
TrainInit ==
    /\ pc = "train_init"
    /\ save_file' = PathOf(args.save_dir, run_id, "_best.pkl")
    /\ \E m \in Metrics :
          /\ best_valid_metric' = m
          /\ valid_hist' = <<m>>
    /\ SaveModel(save_file')
    /\ best_valid_epoch' = 0
    /\ pc' = "loop_head"
    /\ UNCHANGED <<args, run_id, log_file, weights, epoch, valid_metric,
                   n_train_passes,
                   n_test_passes, stop_reason, trained_model_path, resolved>>

\* line 171: the for loop takes its next epoch.
NextEpoch ==
    /\ pc = "loop_head"
    /\ HasNextEpoch(epoch, args.max_epochs)
    /\ epoch' = epoch + 1
    /\ pc' = "train_pass"
    /\ UNCHANGED <<args, run_id, log_file, save_file, weights, files,
                   n_saves, valid_metric, best_valid_metric, best_valid_epoch,
                   valid_hist, n_train_passes, n_test_passes, stop_reason,
                   trained_model_path, resolved>>

\* lines 171, 210: the range is exhausted, train() returns save_file.
EpochsExhausted ==
    /\ pc = "loop_head"
    /\ ~HasNextEpoch(epoch, args.max_epochs)
    /\ stop_reason' = "max_epochs"
    /\ trained_model_path' = save_file
    /\ pc' = "returned"
    /\ UNCHANGED <<args, run_id, log_file, save_file, weights, files,
                   n_saves, epoch, valid_metric, best_valid_metric,
                   best_valid_epoch, valid_hist, n_train_passes,
                   n_test_passes, resolved>>

\* lines 172-179: one training pass, which changes the weights.
TrainPass ==
    /\ pc = "train_pass"
    /\ weights' = [weights EXCEPT !.passes = @ + 1]
    /\ n_train_passes' = n_train_passes + 1
    /\ pc' = "valid_pass"
    /\ UNCHANGED <<args, run_id, log_file, save_file, files, n_saves,
                   epoch, valid_metric, best_valid_metric, best_valid_epoch,
                   valid_hist, n_test_passes, stop_reason, trained_model_path,
                   resolved>>

\* lines 180-192: one validation pass, reduced to a scalar metric.
ValidPass ==
    /\ pc = "valid_pass"
    /\ \E m \in Metrics :
          /\ valid_metric' = m
          /\ valid_hist' = Append(valid_hist, m)
    /\ pc' = "check"
    /\ UNCHANGED <<args, run_id, log_file, save_file, weights, files,
                   n_saves, epoch, best_valid_metric, best_valid_epoch,
                   n_train_passes, n_test_passes, stop_reason,
                   trained_model_path, resolved>>

\* Variant: the new best is remembered but not checkpointed.
SaveIfGoodEnough_NoSave ==
    /\ pc = "check"
    /\ Improved(valid_metric, best_valid_metric)
    /\ best_valid_metric' = valid_metric
    /\ best_valid_epoch' = epoch
    /\ pc' = "loop_head"
    /\ UNCHANGED <<args, run_id, log_file, save_file, weights, files, n_saves,
                   epoch, valid_metric, valid_hist, n_train_passes,
                   n_test_passes, stop_reason, trained_model_path, resolved>>

\* lines 195-201: a new best metric, checkpoint and remember it.
SaveIfGoodEnough ==
    /\ pc = "check"
    /\ Improved(valid_metric, best_valid_metric)
    /\ SaveModel(save_file)
    /\ best_valid_metric' = valid_metric
    /\ best_valid_epoch' = epoch
    /\ pc' = "loop_head"
    /\ UNCHANGED <<args, run_id, log_file, save_file, weights, epoch,
                   valid_metric, valid_hist, n_train_passes, n_test_passes,
                   stop_reason, trained_model_path, resolved>>

\* line 202 false: no improvement, patience left, next iteration.
StaleContinue ==
    /\ pc = "check"
    /\ ~Improved(valid_metric, best_valid_metric)
    /\ ~PatienceExhausted(epoch, best_valid_epoch, args.patience)
    /\ pc' = "loop_head"
    /\ UNCHANGED <<args, run_id, log_file, save_file, weights, files,
                   n_saves, epoch, valid_metric, best_valid_metric,
                   best_valid_epoch, valid_hist, n_train_passes,
                   n_test_passes, stop_reason, trained_model_path, resolved>>

\* lines 202-210: no improvement for patience epochs, break and return.
EarlyStop ==
    /\ pc = "check"
    /\ ~Improved(valid_metric, best_valid_metric)
    /\ PatienceExhausted(epoch, best_valid_epoch, args.patience)
    /\ stop_reason' = "patience"
    /\ trained_model_path' = save_file
    /\ pc' = "returned"
    /\ UNCHANGED <<args, run_id, log_file, save_file, weights, files,
                   n_saves, epoch, valid_metric, best_valid_metric,
                   best_valid_epoch, valid_hist, n_train_passes,
                   n_test_passes, resolved>>

\* Variant: the test pass runs on the weights of the last epoch.
RestoreBest_KeepWeights ==
    /\ pc = "returned"
    /\ args.run_test
    /\ pc' = "test_pass"
    /\ UNCHANGED <<args, run_id, log_file, save_file, weights, files, n_saves,
                   epoch, valid_metric, best_valid_metric, best_valid_epoch,
                   valid_hist, n_train_passes, n_test_passes, stop_reason,
                   trained_model_path, resolved>>

\* lines 267-273: load the test fold, restore the best weights from the
\* path train() returned (the only checkpoint path of this run).
RestoreBest ==
    /\ pc = "returned"
    /\ args.run_test
    /\ weights' = files[trained_model_path]
    /\ pc' = "test_pass"
    /\ UNCHANGED <<args, run_id, log_file, save_file, files, n_saves,
                   epoch, valid_metric, best_valid_metric, best_valid_epoch,
                   valid_hist, n_train_passes, n_test_passes, stop_reason,
                   trained_model_path, resolved>>

\* lines 274-279: one non-training pass over the test fold.
TestPass ==
    /\ pc = "test_pass"
    /\ n_test_passes' = n_test_passes + 1
    /\ pc' = "done"
    /\ UNCHANGED <<args, run_id, log_file, save_file, weights, files,
                   n_saves, epoch, valid_metric, best_valid_metric,
                   best_valid_epoch, valid_hist, n_train_passes, stop_reason,
                   trained_model_path, resolved>>

\* line 267 false: no test evaluation.
SkipTest ==
    /\ pc = "returned"
    /\ ~args.run_test
    /\ pc' = "done"
    /\ UNCHANGED <<args, run_id, log_file, save_file, weights, files,
                   n_saves, epoch, valid_metric, best_valid_metric,
                   best_valid_epoch, valid_hist, n_train_passes,
                   n_test_passes, stop_reason, trained_model_path, resolved>>

Next ==
    \/ Housekeeping
    \/ TrainInit
    \/ NextEpoch
    \/ EpochsExhausted
    \/ TrainPass
    \/ ValidPass
    \/ SaveIfGoodEnough
    \/ StaleContinue
    \/ EarlyStop
    \/ RestoreBest
    \/ TestPass
    \/ SkipTest

Spec == Init /\ [][Next]_vars

\* Control flow is sequential and every collaborator call is assumed to
\* return, so an enabled step is eventually taken.
FairSpec == Init /\ [][Next]_vars /\ WF_vars(Next)


\* ------------------------------------------------- configuration resolver
LoadedDatasetClass == "dataset_class of the checkpoint"
LoadedModelClass == "model_class of the checkpoint"

\* What the collaborators outside this file may return.  Nothing restricts
\* the mappings a dataset or model class declares as its defaults, the
\* overrides the task registry holds, or the content of a tuned-defaults
\* JSON file, so each is any mapping over the keys of the model.
DatasetClassDefaults == MapsOver(DataKeys)
DatasetTaskOverrides == MapsOver(DataKeys)
ModelClassDefaults(mp_style) == MapsOver(ModelKeys)
ModelTaskOverrides == MapsOver(ModelKeys)

\* Variant: the command line overrides are applied before the tuned ones.
get_dataset_CliFirst(dataset_cls, class_defaults, task_overrides, tuned, loaded, cli) ==
    IF dataset_cls = None
    THEN Update(Update(Update(class_defaults, task_overrides), cli), tuned)
    ELSE Update(loaded, cli)

\* Variant: the class defaults are the base layer in both branches.
get_dataset_AlwaysDefaults(dataset_cls, class_defaults, task_overrides, tuned, loaded, cli) ==
    Update(Update(Update(Update(class_defaults, task_overrides), tuned),
                  loaded), cli)

\* get_dataset, lines 46-54: the mapping handed to dataset_cls(...).
\* class_defaults and task_overrides are what the registry and
\* get_default_hyperparameters() return when they are asked (line 47-48).
get_dataset(dataset_cls, class_defaults, task_overrides, tuned, loaded, cli) ==
    LET dataset_params ==
            IF dataset_cls = None
            THEN Update(Update(class_defaults, task_overrides), tuned)
            ELSE loaded
    IN  Update(dataset_params, cli)

\* Variant: the message passing implementation is not written into the
\* mapping.
get_model_params_NoInject(msg_passing_implementation, model_cls, class_defaults, task_overrides, tuned, loaded, cli) ==
    IF model_cls = None
    THEN Update(Update(Update(class_defaults, task_overrides), tuned), cli)
    ELSE Update(loaded, cli)

\* get_model, lines 67-75: the mapping before the search overrides.
get_model_params(msg_passing_implementation, model_cls, class_defaults, task_overrides, tuned, loaded, cli) ==
    LET model_params ==
            IF model_cls = None
            THEN Update(Update(SetItem(class_defaults, ReservedKey,
                                       msg_passing_implementation),
                               task_overrides), tuned)
            ELSE loaded
    IN  Update(model_params, cli)

\* override_model_params_with_hyperdrive_params (azure_ml/utils.py): every
\* search override is coerced to the type of the value the mapping holds
\* for its key and assigned.  All values of this model are strings that
\* are neither boolean nor numeric literals, which coercion leaves as they
\* are.  What happens for a key the mapping does not hold is not described:
\* the call either assigns the string or fails.
HyperdriveOutcomes(model_params, hyper) ==
    {[ok |-> TRUE, params |-> Update(model_params, hyper)]}
    \cup (IF DOMAIN hyper \subseteq DOMAIN model_params
          THEN {}
          ELSE {[ok |-> FALSE, params |-> model_params]})

\* get_model_and_dataset is called once per run (line 214): the resolver
\* steps start from the state in which nothing has been resolved yet.
\*
\* get_model_and_dataset, lines 90-122: the dataset half.  Without a saved
\* model the classes come from the task registry and the tuned defaults
\* from the JSON file (an absent file gives empty mappings).
ResolveDatasetFromTask ==
    \E class_defaults \in DatasetClassDefaults,
       task_overrides \in DatasetTaskOverrides,
       tuned \in MapsOver(DataKeys),
       cli \in MapsOver(DataKeys) :
       resolved' =
          [fn |-> "get_dataset", cls |-> None,
           class_defaults |-> class_defaults,
           task_overrides |-> task_overrides,
           tuned |-> tuned, loaded |-> EmptyMap, cli |-> cli,
           params |-> get_dataset(None, class_defaults, task_overrides,
                                  tuned, EmptyMap, cli)]

\* The dataset half with --load-saved-model: class and hyperparameters come
\* from the pickled header, and no JSON file is read.
ResolveDatasetFromCheckpoint ==
    \E class_defaults \in DatasetClassDefaults,
       task_overrides \in DatasetTaskOverrides,
       loaded \in MapsOver(DataKeys),
       cli \in MapsOver(DataKeys) :
       resolved' =
          [fn |-> "get_dataset", cls |-> LoadedDatasetClass,
           class_defaults |-> class_defaults,
           task_overrides |-> task_overrides,
           tuned |-> EmptyMap, loaded |-> loaded, cli |-> cli,
           params |-> get_dataset(LoadedDatasetClass, class_defaults,
                                  task_overrides, EmptyMap, loaded, cli)]

ResolveDataset ==
    /\ resolved = NoCall
    /\ \/ ResolveDatasetFromTask
       \/ ResolveDatasetFromCheckpoint
    /\ UNCHANGED train_vars

\* get_model_and_dataset, lines 90-114 and 123-134: the model half.
ResolveModelWith(msg_passing_implementation, model_cls, class_defaults, task_overrides, tuned, loaded) ==
    \E cli \in MapsOver(ModelKeys),
       hyper \in MapsOver(ModelKeys) :
       LET model_params ==
               get_model_params(msg_passing_implementation, model_cls,
                                class_defaults, task_overrides, tuned,
                                loaded, cli)
       IN  \E out \in HyperdriveOutcomes(model_params, hyper) :
              resolved' =
                 [fn |-> "get_model", cls |-> model_cls,
                  mp |-> msg_passing_implementation,
                  class_defaults |-> class_defaults,
                  task_overrides |-> task_overrides,
                  tuned |-> tuned, loaded |-> loaded, cli |-> cli,
                  hyper |-> hyper,
                  constructed |-> out.ok, params |-> out.params]

ResolveModelFromTask ==
    \E mp \in Values :
       \E class_defaults \in ModelClassDefaults(mp),
          task_overrides \in ModelTaskOverrides,
          tuned \in MapsOver(ModelKeys) :
          ResolveModelWith(mp, None, class_defaults, task_overrides, tuned,
                           EmptyMap)

ResolveModelFromCheckpoint ==
    \E mp \in Values :
       \E class_defaults \in ModelClassDefaults(mp),
          task_overrides \in ModelTaskOverrides,
          loaded \in MapsOver(ModelKeys) :
          ResolveModelWith(mp, LoadedModelClass, class_defaults,
                           task_overrides, EmptyMap, loaded)

ResolveModel ==
    /\ resolved = NoCall
    /\ \/ ResolveModelFromTask
       \/ ResolveModelFromCheckpoint
    /\ UNCHANGED train_vars

DefaultArgs ==
    [model |-> ModelName, task |-> TaskName, save_dir |-> SaveDir,
     run_name |-> None, run_test |-> TRUE, load_saved_model |-> None,
     max_epochs |-> 1, patience |-> 1]

ResolverInit ==
    /\ args = DefaultArgs
    /\ TrainIdle
    /\ resolved = NoCall

ResolverNext ==
    \/ ResolveDataset
    \/ ResolveModel

ResolverSpec == ResolverInit /\ [][ResolverNext]_vars

\* ------------------------------------------------------------------ C4
\* The value a chain of layers (lowest first) gives a key: that of the
\* highest layer that holds the key.
Holders(k, layers) == {i \in 1..Len(layers) : k \in DOMAIN layers[i]}
Highest(S) == CHOOSE i \in S : \A j \in S : j <= i
LayeredValue(k, layers) == layers[Highest(Holders(k, layers))][k]

\* m is the chain of layers resolved key by key.
IsLayered(m, layers) ==
    /\ DOMAIN m = UNION {DOMAIN layers[i] : i \in 1..Len(layers)}
    /\ \A k \in DOMAIN m : m[k] = LayeredValue(k, layers)

FromTask(fn) == resolved.fn = fn /\ resolved.cls = None

DatasetIsLayered ==
    FromTask("get_dataset") =>
       IsLayered(resolved.params,
                 <<resolved.class_defaults, resolved.task_overrides,
                   resolved.tuned, resolved.cli>>)

NoSearchOverrides ==
    FromTask("get_model") /\ resolved.hyper = EmptyMap /\ resolved.constructed

\* The statement of C4 as made: without a class override the mapping given
\* to the dataset constructor, and to the model constructor when there are
\* no search overrides, is the class defaults overwritten by the task
\* overrides, the tuned overrides and the command line overrides, in that
\* order.
C4_AsClaimed ==
    /\ DatasetIsLayered
    /\ NoSearchOverrides =>
          IsLayered(resolved.params,
                    <<resolved.class_defaults, resolved.task_overrides,
                      resolved.tuned, resolved.cli>>)

\* C4, amended: the dataset mapping is the class defaults overwritten by
\* the task, tuned and command line overrides in that order; the model
\* mapping (no search overrides) is the same chain with one more layer
\* right above the class defaults, which sets gnn_message_calculation_class
\* to the message passing implementation.
C4_LayeredOverrides ==
    /\ DatasetIsLayered
    /\ NoSearchOverrides =>
          IsLayered(resolved.params,
                    <<resolved.class_defaults,
                      [k \in {ReservedKey} |-> resolved.mp],
                      resolved.task_overrides, resolved.tuned, resolved.cli>>)

C4_Witness ==
    /\ NoSearchOverrides
    /\ ReservedKey \in DOMAIN resolved.class_defaults
    /\ resolved.class_defaults[ReservedKey] # resolved.mp
    /\ ReservedKey \notin DOMAIN resolved.task_overrides
    /\ \E k \in ModelKeys \ {ReservedKey} :
          /\ k \in DOMAIN resolved.class_defaults
          /\ k \in DOMAIN resolved.task_overrides
          /\ k \in DOMAIN resolved.tuned
          /\ k \notin DOMAIN resolved.cli
          /\ resolved.tuned[k] # resolved.task_overrides[k]
          /\ resolved.params[k] = resolved.tuned[k]

\* ------------------------------------------------------------------ C5
\* C5: with a saved model file the dataset mapping is the hyperparameters
\* of the checkpoint with the command line overrides on top: the class
\* defaults, the task overrides and the tuned overrides play no part, and
\* every key of the command line overrides has its command line value.
C5_CheckpointThenCli ==
    (resolved.fn = "get_dataset" /\ resolved.cls # None) =>
       /\ DOMAIN resolved.params = DOMAIN resolved.loaded \cup DOMAIN resolved.cli
       /\ \A k \in DOMAIN resolved.cli : resolved.params[k] = resolved.cli[k]
       /\ \A k \in DOMAIN resolved.loaded \ DOMAIN resolved.cli :
             resolved.params[k] = resolved.loaded[k]
       /\ resolved.tuned = EmptyMap

C5_Witness ==
    /\ resolved.fn = "get_dataset"
    /\ resolved.cls # None
    /\ \E k \in DataKeys :
          /\ k \in DOMAIN resolved.class_defaults
          /\ k \in DOMAIN resolved.task_overrides
          /\ k \notin DOMAIN resolved.params
    /\ \E k \in DataKeys :
          /\ k \in DOMAIN resolved.loaded
          /\ k \in DOMAIN resolved.cli
          /\ resolved.loaded[k] # resolved.cli[k]
          /\ resolved.class_defaults # EmptyMap

\* ------------------------------------------------------------------ C9
\* The statement of C9 as made: without a model class override the mapping
\* given to the model constructor maps gnn_message_calculation_class to the
\* message passing implementation, whatever the override layers hold.
C9_AsClaimed ==
    (FromTask("get_model") /\ resolved.constructed) =>
       /\ ReservedKey \in DOMAIN resolved.params
       /\ resolved.params[ReservedKey] = resolved.mp

OverrideKeys ==
    DOMAIN resolved.task_overrides \cup DOMAIN resolved.tuned
    \cup DOMAIN resolved.cli \cup DOMAIN resolved.hyper

\* C9, amended: without a model class override the mapping given to the
\* model constructor maps gnn_message_calculation_class to the message
\* passing implementation whenever no task, tuned, command line or search
\* override holds that key; the key is always present.
C9_InjectedUnlessOverridden ==
    (FromTask("get_model") /\ resolved.constructed) =>
       /\ ReservedKey \in DOMAIN resolved.params
       /\ ReservedKey \notin OverrideKeys =>
             resolved.params[ReservedKey] = resolved.mp

C9_Witness ==
    /\ FromTask("get_model")
    /\ resolved.constructed
    /\ ReservedKey \notin OverrideKeys
    /\ ReservedKey \in DOMAIN resolved.class_defaults
    /\ resolved.class_defaults[ReservedKey] # resolved.mp
    /\ resolved.cli # EmptyMap
    /\ resolved.hyper # EmptyMap
    /\ resolved.params[ReservedKey] = resolved.mp


\* ----------------------------------------------- history-based definitions
\* What the claims say about the run, computed from the validation metrics
\* observed (valid_hist[1] is the baseline, valid_hist[e + 1] is epoch e's).

\* The metrics the loop has already acted on: the latest one is still to be
\* compared while pc = "check".
Checked ==
    IF pc = "check" THEN SubSeq(valid_hist, 1, Len(valid_hist) - 1)
    ELSE valid_hist

MinOfPrefix(h, n) == CHOOSE m \in {h[i] : i \in 1..n} : \A j \in 1..n : m <= h[j]

\* The earliest epoch (0 for the baseline) that observed the minimum of the
\* first n metrics.
EarliestBestEpoch(h, n) ==
    (CHOOSE i \in 1..n : /\ h[i] = MinOfPrefix(h, n)
                         /\ \A j \in 1..(i - 1) : h[j] # h[i]) - 1

\* Epoch e did not improve on the best of the epochs before it.
IsStale(h, e) == ~(h[e + 1] < MinOfPrefix(h, e))

\* Epoch e is stale and lies patience or more epochs after the best epoch.
StopsAt(h, e, patience) ==
    /\ IsStale(h, e)
    /\ e - EarliestBestEpoch(h, e) >= patience

NumImproving(h) == Cardinality({e \in 1..(Len(h) - 1) : ~IsStale(h, e)})

Stopped == stop_reason # "running"
InTrain == pc \in {"loop_head", "train_pass", "valid_pass", "check"}

\* The metric patterns of the two worked examples: [1.0, 0.9, 0.95, 0.95,
\* 0.95] and [2.0, 2.5] in the order of their values.
Example1 == <<3, 1, 2, 2, 2>>
Example2 == <<2, 3>>

\* ------------------------------------------------------------------ C1
\* C1: the loop of train() stops early exactly at the first epoch that is
\* stale and at least patience epochs after the best epoch; it stops for no
\* other reason than having run max_epochs epochs.  With patience 3 the
\* metrics 1.0, 0.9, 0.95, 0.95, 0.95 stop after epoch 4; with patience 1
\* and max_epochs 2 the metrics 2.0, 2.5 stop after epoch 1.
C1_EarlyStopExactly ==
    /\ stop_reason = "patience" =>
          /\ epoch = Len(valid_hist) - 1
          /\ StopsAt(valid_hist, epoch, args.patience)
          /\ \A e \in 1..(epoch - 1) : ~StopsAt(valid_hist, e, args.patience)
    /\ stop_reason = "max_epochs" =>
          /\ epoch = args.max_epochs
          /\ epoch = Len(valid_hist) - 1
          /\ \A e \in 1..epoch : ~StopsAt(valid_hist, e, args.patience)
    /\ (InTrain /\ ~Stopped) =>
          \A e \in 1..(Len(Checked) - 1) : ~StopsAt(valid_hist, e, args.patience)
    /\ (args.patience = 3 /\ valid_hist = Example1 /\ pc # "check") =>
          /\ stop_reason = "patience"
          /\ epoch = 4
    /\ (args.patience = 1 /\ args.max_epochs = 2 /\ valid_hist = Example2
        /\ pc # "check") =>
          /\ stop_reason = "patience"
          /\ epoch = 1
          /\ n_train_passes = 1

C1_Witness ==
    /\ args.patience = 3
    /\ args.max_epochs > 4
    /\ valid_hist = Example1
    /\ stop_reason = "patience"
    /\ best_valid_epoch = 1

\* ------------------------------------------------------------------ C2
\* C2: an epoch whose validation metric equals the best metric leaves the
\* best metric, the best epoch and the checkpoint alone, and the patience
\* check treats it as an epoch without improvement.
C2_TieIsNotImprovement ==
    [][(pc = "check" /\ valid_metric = best_valid_metric) =>
          /\ best_valid_metric' = best_valid_metric
          /\ best_valid_epoch' = best_valid_epoch
          /\ n_saves' = n_saves
          /\ files' = files
          /\ pc' = IF epoch - best_valid_epoch >= args.patience
                   THEN "returned" ELSE "loop_head"]_vars

C2_Witness ==
    /\ pc = "returned"
    /\ stop_reason = "patience"
    /\ valid_metric = best_valid_metric
    /\ \A i \in 2..Len(valid_hist) : valid_hist[i] = valid_hist[1]
    /\ n_saves = 1

\* ------------------------------------------------------------------ C3
\* C3: save_model runs once at initialisation, after the baseline
\* validation pass and before any training pass, and once in every epoch
\* that improves on the best metric, and never otherwise; the file at the
\* path train() uses and returns always holds the weights that produced the
\* best validation metric so far.
C3_CheckpointIsBest ==
    /\ pc \in {"start", "train_init"} => (n_saves = 0 /\ n_train_passes = 0)
    /\ pc \notin {"start", "train_init"} =>
          /\ n_saves = 1 + NumImproving(Checked)
          /\ save_file \in DOMAIN files
          /\ files[save_file].passes = best_valid_epoch
          /\ valid_hist[files[save_file].passes + 1] = best_valid_metric
          /\ best_valid_metric = MinOfPrefix(Checked, Len(Checked))
          /\ files[save_file].origin =
                (IF args.load_saved_model = None THEN "init" ELSE "loaded")
    /\ Stopped => trained_model_path = save_file

C3_Witness ==
    /\ pc = "returned"
    /\ n_saves = 3
    /\ best_valid_epoch = 3
    /\ files[trained_model_path].passes = 3
    /\ n_train_passes = 4

\* ------------------------------------------------------------------ C6
\* C6: a run name given with --run-name is the run identifier that names
\* the log file and the checkpoint; the identifier is derived from model,
\* task and time only when no run name is given.
C6_RunNameIsRunId ==
    pc # "start" =>
       /\ args.run_name # None =>
             /\ run_id = <<args.run_name>>
             /\ log_file = PathOf(args.save_dir, <<args.run_name>>, ".log")
             /\ save_file \in
                   {NoPath, PathOf(args.save_dir, <<args.run_name>>, "_best.pkl")}
       /\ args.run_name = None =>
             \E now \in Timestamps :
                run_id = <<args.model, "_", args.task, "__", now>>

\* ------------------------------------------------------------------ C7
\* C7: train() always reaches its end, after at most max_epochs training
\* passes, and it ends either because patience ran out or because
\* max_epochs epochs were run, whichever comes first.
C7_Terminates ==
    /\ <>Stopped
    /\ [](n_train_passes <= args.max_epochs)
    /\ [](Stopped =>
            \/ /\ stop_reason = "patience"
               /\ ~Improved(valid_metric, best_valid_metric)
               /\ PatienceExhausted(epoch, best_valid_epoch, args.patience)
               /\ epoch <= args.max_epochs
               /\ n_train_passes = epoch
            \/ /\ stop_reason = "max_epochs"
               /\ n_train_passes = args.max_epochs
               /\ epoch - best_valid_epoch <= args.patience)

C7_Witness ==
    /\ stop_reason = "max_epochs"
    /\ n_train_passes = args.max_epochs
    /\ args.max_epochs = MaxEpochs
    /\ args.patience < MaxEpochs
    /\ pc = "done"

\* ------------------------------------------------------------------ C8
\* C8: the test evaluation starts only after the training loop has ended;
\* it first reloads the weights stored at the path train() returned, then
\* runs exactly one pass over the test fold that does not train, and no
\* checkpoint is written after train() has returned.
C8_TestAfterTraining ==
    /\ [](/\ (pc = "test_pass" \/ n_test_passes > 0) => Stopped
          /\ pc = "test_pass" =>
                /\ trained_model_path \in DOMAIN files
                /\ weights = files[trained_model_path]
                /\ n_test_passes = 0
          /\ pc = "done" =>
                n_test_passes = (IF args.run_test THEN 1 ELSE 0))
    /\ [][Stopped => (n_saves' = n_saves /\ files' = files
                      /\ n_train_passes' = n_train_passes)]_vars
    /\ [][n_test_passes' # n_test_passes =>
             (pc = "test_pass" /\ weights' = weights)]_vars

C8_Witness ==
    /\ pc = "done"
    /\ n_test_passes = 1
    /\ weights.passes < n_train_passes
    /\ weights = files[trained_model_path]

\* ------------------------------------------------------------------ C10
\* C10: throughout the loop best_valid_metric is the minimum of the
\* validation metrics seen so far, best_valid_epoch is the earliest epoch
\* that saw it (0 for the baseline), best_valid_metric never increases, and
\* 0 <= epoch - best_valid_epoch <= patience.
C10_BestIsRunningMin ==
    /\ [](InTrain =>
            /\ best_valid_metric = MinOfPrefix(Checked, Len(Checked))
            /\ best_valid_epoch = EarliestBestEpoch(Checked, Len(Checked))
            /\ 0 <= epoch - best_valid_epoch
            /\ epoch - best_valid_epoch <= args.patience)
    /\ [][InTrain => best_valid_metric' <= best_valid_metric]_vars

C10_Witness ==
    /\ pc = "check"
    /\ epoch - best_valid_epoch = args.patience
    /\ best_valid_epoch >= 1
    /\ valid_hist[1] > best_valid_metric
    /\ valid_hist[Len(valid_hist)] = best_valid_metric

=============================================================================
